---- MODULE Spec2Model ----
(***************************************************************************)
(* Model of the Neo4j graph wrapper of the neo4j-chat plugin               *)
(* (src/libs/neo4j_graph.py): the result sanitizer value_sanitize, the     *)
(* bulk import queries, and Neo4jGraph.refresh_schema with the statistics  *)
(* sampler and the schema formatter.                                       *)
(*                                                                         *)
(* Three specifications share the module:                                  *)
(*   SpecSanitize  value_sanitize applied, and applied again, to a value   *)
(*   SpecImport    the import queries run against a small graph store      *)
(*   Spec          refresh_schema, step by step between its queries        *)
(***************************************************************************)
EXTENDS Integers, Sequences, FiniteSets, TLC

VARIABLES
    sanInput,   \* the value handed to value_sanitize
    sanOnce,    \* value_sanitize(sanInput)
    sanTwice,   \* value_sanitize(value_sanitize(sanInput))
    sanPc,      \* how many times the sanitizer has been applied (0, 1, 2)
    graph,      \* the graph store: [nodes, rels]
    graphBefore,\* the graph store before the last import query ran
    impCall,    \* the last import: which query, with which $data / $document
    impPhase,   \* "empty", "seeded", "once" (imported), "twice" (re-imported)
    enhanced_schema,    \* self._enhanced_schema
    structured_schema,  \* self.structured_schema
    self_schema,        \* self.schema: the lines of the formatted schema
    pc,                 \* where refresh_schema stands ("idle": not running)
    server,             \* the database the executor reaches
    frame,              \* the locals of the running refresh_schema
    raised,             \* what the last refresh_schema raised ("": nothing)
    refreshes,          \* refresh_schema calls so far
    committed,          \* the accessors' pair when the last refresh completed
    denied,             \* the metadata fetch that hit a ClientError, if any
    skipped,            \* the labels and types whose statistics query raised
                        \* CypherTypeError in this refresh
    fmtSchema,          \* the schema handed to _format_schema
    fmtEnhanced,        \* its is_enhanced argument
    fmtResult,          \* what the call returned or raised
    fmtPc,              \* 0 before the call, 1 after it
    drivers,            \* per instance: whether it has _driver, how often the
                        \* driver was closed and contacted, whether it is deleted
    default_session_params, \* the dict that is the default of session_params
    versions,           \* per instance: how many times structured_schema and
                        \* schema were assigned
    atClose,            \* per instance: versions when the driver was closed
    lastOp,             \* the last call on an instance and how it went
    calls               \* calls made so far

sanVars == <<sanInput, sanOnce, sanTwice, sanPc>>
impVars == <<graph, graphBefore, impCall, impPhase>>
refVars == <<enhanced_schema, structured_schema, self_schema, pc, server, frame,
             raised,
             refreshes, committed, denied, skipped>>
fmtVars == <<fmtSchema, fmtEnhanced, fmtResult, fmtPc>>
lifeVars == <<drivers, default_session_params, versions, atClose, lastOp, calls>>
vars == <<sanVars, impVars, refVars, fmtVars, lifeVars>>
\* what the sanitizer, the import queries, refresh_schema, _format_schema and
\* the calls on the instances leave alone
notSanVars == <<impVars, refVars, fmtVars, lifeVars>>
notImpVars == <<sanVars, refVars, fmtVars, lifeVars>>
notRefVars == <<sanVars, impVars, fmtVars, lifeVars>>
notFmtVars == <<sanVars, impVars, refVars, lifeVars>>
notLifeVars == <<sanVars, impVars, refVars, fmtVars>>

(***************************************************************************)
(* Program constants (src/libs/neo4j_graph.py:5-11).                       *)
(***************************************************************************)
LIST_LIMIT == 128
DISTINCT_VALUE_LIMIT == 10
EXHAUSTIVE_SEARCH_LIMIT == 10000

(***************************************************************************)
(* Bounds of the model.                                                    *)
(***************************************************************************)
MaxShortLen == 2      \* longest list whose elements are enumerated freely
MaxRows == 2          \* most rows in the $data of one import
MaxRefreshes == 2     \* most refresh_schema calls on one instance
MaxProps == 2         \* most properties of a label handed to _format_schema
MaxCalls == 4         \* most calls made on the instances

(***************************************************************************)
(* Generic helpers.                                                        *)
(***************************************************************************)
Range(s) == {s[i] : i \in DOMAIN s}

(***************************************************************************)
(* JSON-like values.  Python's None, a scalar, a list and a dict (ordered  *)
(* key/value items) are records tagged by kind.                            *)
(***************************************************************************)
None == [kind |-> "none", payload |-> <<>>]
Scalar(x) == [kind |-> "scalar", payload |-> <<x>>]
List(items) == [kind |-> "list", payload |-> items]
Dict(items) == [kind |-> "dict", payload |-> items]

IsDict(v) == v.kind = "dict"
IsList(v) == v.kind = "list"
Keys(d) == {d.payload[i][1] : i \in DOMAIN d.payload}
Get(d, k) == LET i == CHOOSE j \in DOMAIN d.payload : d.payload[j][1] = k
             IN d.payload[i][2]

IsNone(v) == v.kind = "none"

(***************************************************************************)
(* value_sanitize (src/libs/neo4j_graph.py:64-107).                        *)
(***************************************************************************)
RECURSIVE value_sanitize(_)
RECURSIVE SanitizeItems(_)

\* line 89: a list-valued dict entry is looked at only below the limit
DictListKept(value) == Len(value.payload) < LIST_LIMIT

\* mutant of ListKept: the boundary taken as <= (a list of exactly LIST_LIMIT
\* elements kept)
ListKept_AtLimit(d) == Len(d.payload) <= LIST_LIMIT

\* line 100: a list is sanitized element-wise only below the limit
ListKept(d) == Len(d.payload) < LIST_LIMIT

\* mutant of ScalarEntry: a None scalar is left out of new_dict
ScalarEntry_DropNone(key, value) ==
    IF IsNone(value) THEN <<>> ELSE << <<key, value>> >>

\* line 97: the else branch keeps any other value as it is, None included
ScalarEntry(key, value) == << <<key, value>> >>

\* lines 82-94: a dict or list value is stored when its sanitized form is
\* not None
NestedEntry(key, value) ==
    LET sanitized_value == value_sanitize(value)
    IN IF ~IsNone(sanitized_value) THEN << <<key, sanitized_value>> >> ELSE <<>>

\* lines 81-97: the loop over d.items(), building new_dict
SanitizeItems(items) ==
    IF items = <<>> THEN <<>>
    ELSE LET key == Head(items)[1]
             value == Head(items)[2]
             entry == IF IsDict(value) THEN NestedEntry(key, value)
                      ELSE IF IsList(value)
                           THEN (IF DictListKept(value)
                                 THEN NestedEntry(key, value) ELSE <<>>)
                           ELSE ScalarEntry(key, value)
         IN entry \o SanitizeItems(Tail(items))

\* mutant of ElemKept: the filter looks at the item, not at its sanitized
\* form
ElemKept_Raw(item) == ~IsNone(item)

\* line 102: the filter of the list comprehension
ElemKept(item) == ~IsNone(value_sanitize(item))

\* line 102: the element the list comprehension emits
SanitizedElem(item) == value_sanitize(item)

\* lines 101-103: the list comprehension
SanitizeElems(items) ==
    LET kept == SelectSeq(items, ElemKept)
    IN [i \in DOMAIN kept |-> SanitizedElem(kept[i])]

value_sanitize(d) ==
    IF IsDict(d) THEN Dict(SanitizeItems(d.payload))
    ELSE IF IsList(d)
         THEN (IF ListKept(d) THEN List(SanitizeElems(d.payload)) ELSE None)
         ELSE d

(***************************************************************************)
(* The values the sanitizer is tried on: three levels of nesting; lists of *)
(* every length up to MaxShortLen and of LIST_LIMIT - 1, LIST_LIMIT and    *)
(* LIST_LIMIT + 1 elements; dicts over two keys; None among the scalars.   *)
(***************************************************************************)
Atoms == {None, Scalar("a")}
ShortLists(S) == UNION {[1..n -> S] : n \in 0..MaxShortLen}
PairLists(S) == {<<>>} \cup {<<a>> : a \in S} \cup {<<a, b>> : a \in S, b \in S}
LongLens == {LIST_LIMIT - 1, LIST_LIMIT, LIST_LIMIT + 1}
LongLists(S) ==
    {[i \in 1..n |-> IF i = 1 THEN first ELSE fill] :
        n \in LongLens, first \in S, fill \in Atoms}
ItemsOver(S) ==
    {<<>>} \cup {<< <<"k1", v>> >> : v \in S} \cup {<< <<"k2", v>> >> : v \in S}
    \cup {<< <<"k1", v>>, <<"k2", w>> >> : v \in S, w \in S}

Level0 ==
    Atoms \cup {List(l) : l \in ShortLists(Atoms) \cup LongLists(Atoms)}
    \cup {Dict(m) : m \in ItemsOver(Atoms)}
Level1 ==
    {List(l) : l \in PairLists(Level0) \cup LongLists(Level0)}
    \cup {Dict(m) : m \in ItemsOver(Level0)}
Level2 ==
    {List(<<v>>) : v \in Level1} \cup {Dict(<< <<"k1", v>> >>) : v \in Level1}
Values == Level0 \cup Level1 \cup Level2

(***************************************************************************)
(* SpecSanitize: query() with the sanitize flag passes a record through    *)
(* value_sanitize (lines 444-445); the caller may pass the result through  *)
(* it again.                                                               *)
(***************************************************************************)
SanIdle ==
    /\ sanInput = None
    /\ sanOnce = None
    /\ sanTwice = None
    /\ sanPc = 0

ImpIdle ==
    /\ graph = [nodes |-> <<>>, rels |-> <<>>]
    /\ graphBefore = [nodes |-> <<>>, rels |-> <<>>]
    /\ impCall = [kind |-> "none", baseEntityLabel |-> FALSE,
                  include_source |-> FALSE, data |-> <<>>]
    /\ impPhase = "empty"

\* a database with nothing in it
EmptyDb ==
    [labels |-> <<>>, reltypes |-> <<>>, topology |-> <<>>,
     constraints |-> <<>>, indexes |-> <<>>]

\* structured_schema before the first refresh (line 379); node_props and
\* rel_props are sequences of <<name, descriptors>> in insertion order
EmptySchema ==
    [node_props |-> <<>>, rel_props |-> <<>>, relationships |-> <<>>,
     metadata |-> [constraint |-> <<>>, index |-> <<>>]]

EmptyFrame ==
    [node_properties |-> <<>>, rel_properties |-> <<>>, relationships |-> <<>>,
     constraint |-> <<>>, index |-> <<>>,
     schema_counts |-> [nodes |-> <<>>, relationships |-> <<>>], i |-> 0]

\* no refresh_schema is running and none has run
RefIdle ==
    /\ enhanced_schema = FALSE
    /\ structured_schema = EmptySchema
    /\ self_schema = <<>>
    /\ pc = "idle"
    /\ server = EmptyDb
    /\ frame = EmptyFrame
    /\ raised = ""
    /\ refreshes = 0
    /\ committed = <<EmptySchema, <<>> >>
    /\ denied = ""
    /\ skipped = {}

\* _format_schema has not been called
FmtIdle ==
    /\ fmtSchema = EmptySchema
    /\ fmtEnhanced = FALSE
    /\ fmtResult = [ok |-> FALSE, error |-> "", lines |-> <<>>]
    /\ fmtPc = 0

\* the instances of Neo4jGraph and the database each is configured with
Instances == {"g1", "g2"}
DatabaseOf(instance) == IF instance = "g1" THEN "db1" ELSE "db2"

\* a dict with no key
EmptyDict == [k \in {} |-> ""]

\* no call has been made yet
NoOp ==
    [instance |-> "", op |-> "none", outcome |-> "", path |-> <<>>,
     database |-> "", explicit |-> FALSE, wasOpen |-> FALSE,
     contacted |-> FALSE]

\* two instances just constructed (lines 349-358)
LifeIdle ==
    /\ drivers = [i \in Instances |->
                    [open |-> TRUE, closes |-> 0, contacts |-> 0,
                     closings |-> 0, deleted |-> FALSE]]
    /\ default_session_params = EmptyDict
    /\ versions = [i \in Instances |-> <<0, 0>>]
    /\ atClose = [i \in Instances |-> <<0, 0, 0>>]
    /\ lastOp = NoOp
    /\ calls = 0

SanInit ==
    /\ sanInput \in Values
    /\ sanOnce = None
    /\ sanTwice = None
    /\ sanPc = 0
    /\ ImpIdle
    /\ RefIdle
    /\ FmtIdle
    /\ LifeIdle

SanitizeFirst ==
    /\ sanPc = 0
    /\ sanOnce' = value_sanitize(sanInput)
    /\ sanPc' = 1
    /\ UNCHANGED <<sanInput, sanTwice>>
    /\ UNCHANGED notSanVars

SanitizeAgain ==
    /\ sanPc = 1
    /\ sanTwice' = value_sanitize(sanOnce)
    /\ sanPc' = 2
    /\ UNCHANGED <<sanInput, sanOnce>>
    /\ UNCHANGED notSanVars

SanNext == SanitizeFirst \/ SanitizeAgain

SpecSanitize == SanInit /\ [][SanNext]_vars

Oversized(v) == IsList(v) /\ Len(v.payload) >= LIST_LIMIT

\* C5: value_sanitize is idempotent: applied to its own result it returns
\* that result
C5_Idempotent == sanPc = 2 => sanTwice = sanOnce

\* a list of LIST_LIMIT - 1 elements that lost its None element was
\* sanitized twice
C5_Witness ==
    /\ sanPc = 2
    /\ IsList(sanInput) /\ Len(sanInput.payload) = LIST_LIMIT - 1
    /\ IsList(sanOnce) /\ Len(sanOnce.payload) = LIST_LIMIT - 2
    /\ IsList(sanTwice)

\* the elements of a kept list: every element that is neither None nor an
\* oversized list, sanitized, in order
SurvivingElems(items) ==
    LET kept == SelectSeq(items, LAMBDA c : ~IsNone(c) /\ ~Oversized(c))
    IN [i \in DOMAIN kept |-> value_sanitize(kept[i])]

RECURSIVE ListRule(_, _)
\* out is what the list rule prescribes for v, at v and at every value
\* nested in v
ListRule(v, out) ==
    /\ IsList(v) =>
        /\ IsNone(out) <=> Len(v.payload) >= LIST_LIMIT
        /\ Len(v.payload) < LIST_LIMIT =>
              /\ IsList(out)
              /\ out.payload = SurvivingElems(v.payload)
        /\ \A i \in DOMAIN v.payload :
              ListRule(v.payload[i], value_sanitize(v.payload[i]))
    /\ IsDict(v) =>
        /\ IsDict(out)
        /\ \A i \in DOMAIN v.payload :
              LET key == v.payload[i][1]
                  value == v.payload[i][2]
              IN /\ IsList(value) =>
                      /\ key \in Keys(out) <=> Len(value.payload) < LIST_LIMIT
                      /\ key \in Keys(out) =>
                            /\ IsList(Get(out, key))
                            /\ Get(out, key).payload = SurvivingElems(value.payload)
                 /\ ListRule(value, value_sanitize(value))

C7_KeyIffNonNull ==
    (sanPc >= 1 /\ IsDict(sanInput)) =>
        \A k \in Keys(sanInput) :
            k \in Keys(sanOnce) <=> ~IsNone(value_sanitize(Get(sanInput, k)))

\* C7 as amended: a key whose value is a dict or a list is present iff its
\* sanitized value is non-null, and then holds that sanitized value; a key
\* whose value is a scalar, None included, is always present, unchanged
C7_KeyIffNonNullNested ==
    (sanPc >= 1 /\ IsDict(sanInput)) =>
        /\ IsDict(sanOnce)
        /\ \A k \in Keys(sanInput) :
              LET value == Get(sanInput, k)
              IN IF IsDict(value) \/ IsList(value)
                 THEN /\ k \in Keys(sanOnce) <=> ~IsNone(value_sanitize(value))
                      /\ k \in Keys(sanOnce) =>
                            Get(sanOnce, k) = value_sanitize(value)
                 ELSE /\ k \in Keys(sanOnce)
                      /\ Get(sanOnce, k) = value

\* a dict with None under k1 and a list of LIST_LIMIT elements under k2 was
\* sanitized: the None stayed, the list went
C7_Witness ==
    /\ sanPc = 1
    /\ IsDict(sanInput) /\ Keys(sanInput) = {"k1", "k2"}
    /\ IsNone(Get(sanInput, "k1"))
    /\ IsList(Get(sanInput, "k2"))
    /\ Len(Get(sanInput, "k2").payload) = LIST_LIMIT
    /\ Keys(sanOnce) = {"k1"}

(***************************************************************************)
(* Text.  A string is a sequence of tokens; the strings that come from the *)
(* database (property values) are sequences of single characters, so that  *)
(* clean_string_values can act on them.  Cypher's null / Python's None in  *)
(* a statistics field is NullText (a string field) or NullInt (a number).  *)
(***************************************************************************)
NullText == <<"<null>">>
NullInt == -1
Digits == <<"0", "1", "2", "3", "4", "5", "6", "7", "8", "9">>

RECURSIVE IntText(_)
\* str(n) for a natural number
IntText(n) ==
    IF n < 0 THEN <<"None">>
    ELSE IF n < 10 THEN <<Digits[n + 1]>>
    ELSE IntText(n \div 10) \o <<Digits[(n % 10) + 1]>>

RECURSIVE JoinText(_, _)
\* sep.join(parts), parts a sequence of texts
JoinText(sep, parts) ==
    IF parts = <<>> THEN <<>>
    ELSE IF Len(parts) = 1 THEN parts[1]
    ELSE parts[1] \o <<sep>> \o JoinText(sep, Tail(parts))

\* clean_string_values (lines 50-61)
clean_string_values(text) ==
    [i \in DOMAIN text |-> IF text[i] \in {"\n", "\r"} THEN " " ELSE text[i]]

(***************************************************************************)
(* PropertyDescriptor: [property, type, stats]; stats maps the statistics  *)
(* keys the sampler has merged in (values, distinct_count, min, max,       *)
(* min_size, max_size) to their values.                                    *)
(***************************************************************************)
NoStats == [k \in {} |-> <<>>]
Descriptor(property, type) == [property |-> property, type |-> type, stats |-> NoStats]
Has(prop, key) == key \in DOMAIN prop.stats

\* prop.get("values"): a non-empty list
TruthyValues(prop) == Has(prop, "values") /\ prop.stats["values"] # <<>>
\* prop.get("min"), prop.get("max"): a non-empty string
TruthyText(prop, key) ==
    Has(prop, key) /\ prop.stats[key] # NullText /\ prop.stats[key] # <<>>
\* prop.get("min_size"): a number other than 0
TruthyInt(prop, key) ==
    Has(prop, key) /\ prop.stats[key] # NullInt /\ prop.stats[key] # 0

NumericTypes == {"INTEGER", "FLOAT", "DATE", "DATE_TIME", "LOCAL_DATE_TIME"}
SkippedTypes == {"BOOLEAN", "POINT", "DURATION"}

(***************************************************************************)
(* _format_schema (lines 157-283).  The result is [ok, lines]: the lines   *)
(* joined by "\n" in the code, or ok = FALSE when the code raises.         *)
(***************************************************************************)
Raised(error) == [ok |-> FALSE, error |-> error, lines |-> <<>>]
Returned(lines) == [ok |-> TRUE, error |-> "", lines |-> lines]

\* f'Example: "{...}"'
ExampleOf(text) == <<"Example: \"">> \o text \o <<"\"">>

\* f'{[clean_string_values(el) for el in prop["values"]]}'
ListRepr(values) ==
    <<"[">>
    \o JoinText(", ", [i \in DOMAIN values |->
                        <<"'">> \o clean_string_values(values[i]) \o <<"'">>])
    \o <<"]">>

\* lines 167-181 and 215-229: the STRING branch, entered with values
StringExample(prop) ==
    IF (IF Has(prop, "distinct_count") THEN prop.stats["distinct_count"]
        ELSE 11) > DISTINCT_VALUE_LIMIT
    THEN ExampleOf(clean_string_values(prop.stats["values"][1]))
    ELSE <<"Available options: ">> \o ListRepr(prop.stats["values"])

\* f'Min: {prop["min"]}, Max: {prop["max"]}'
MinMaxExample(prop) ==
    <<"Min: ">> \o prop.stats["min"] \o <<", Max: ">> \o prop.stats["max"]

\* lines 190-197: the numeric branch for a node property
NodeNumericExample(prop) ==
    IF TruthyText(prop, "min") /\ TruthyText(prop, "max")
    THEN Returned(MinMaxExample(prop))
    ELSE IF TruthyValues(prop)
         THEN Returned(ExampleOf(prop.stats["values"][1]))
         ELSE Returned(<<>>)

\* lines 237-242: the numeric branch for a relationship property; it reads
\* prop["values"], a KeyError when the key is absent
RelNumericExample(prop) ==
    IF TruthyText(prop, "min") /\ TruthyText(prop, "max")
    THEN Returned(MinMaxExample(prop))
    ELSE IF ~Has(prop, "values") THEN Raised("KeyError")
         ELSE IF prop.stats["values"] # <<>>
              THEN Returned(ExampleOf(prop.stats["values"][1]))
              ELSE Returned(<<>>)

\* mutant of ListSkipped: the size is not compared with LIST_LIMIT
ListSkipped_AnySize(prop) == ~TruthyInt(prop, "min_size")

\* lines 200-201 and 245-246: a LIST property is left out
ListSkipped(prop) ==
    ~TruthyInt(prop, "min_size") \/ prop.stats["min_size"] > LIST_LIMIT

\* lines 202-204 and 247-249
ListExample(prop) ==
    <<"Min Size: ">> \o IntText(prop.stats["min_size"])
    \o <<", Max Size: ">> \o IntText(prop.stats["max_size"])

\* the backquote character of the rendering
BQ == "(backquote)"

\* f"  - (bq){prop['property']}(bq): {prop['type']} {example}", line 206, 251
PropLine(prop, example) ==
    <<"  - ", BQ, prop.property, BQ, ": ", prop.type, " ">> \o example

\* one pass of the loop body (lines 164-207, 212-252): [ok, lines], lines
\* holding the property's line, or nothing when the property is skipped
EnhancedProp(prop, is_rel) ==
    IF prop.type = "STRING" /\ TruthyValues(prop)
    THEN Returned(<<PropLine(prop, StringExample(prop))>>)
    ELSE IF prop.type \in NumericTypes
    THEN LET e == IF is_rel THEN RelNumericExample(prop)
                  ELSE NodeNumericExample(prop)
         IN IF e.ok THEN Returned(<<PropLine(prop, e.lines)>>) ELSE e
    ELSE IF prop.type = "LIST"
    THEN IF ListSkipped(prop) THEN Returned(<<>>)
         ELSE Returned(<<PropLine(prop, ListExample(prop))>>)
    ELSE Returned(<<PropLine(prop, <<>>)>>)

RECURSIVE EnhancedProps(_, _)
\* the loop over the properties of one label or type
EnhancedProps(properties, is_rel) ==
    IF properties = <<>> THEN Returned(<<>>)
    ELSE LET first == EnhancedProp(Head(properties), is_rel)
         IN IF ~first.ok THEN first
            ELSE LET rest == EnhancedProps(Tail(properties), is_rel)
                 IN IF ~rest.ok THEN rest
                    ELSE Returned(first.lines \o rest.lines)

RECURSIVE EnhancedEntries(_, _)
\* lines 162-207 (nodes), 210-252 (relationships): entries is node_props or
\* rel_props, a sequence of <<name, properties>>
EnhancedEntries(entries, is_rel) ==
    IF entries = <<>> THEN Returned(<<>>)
    ELSE LET head == <<"- **", Head(entries)[1], "**">>
             props == EnhancedProps(Head(entries)[2], is_rel)
         IN IF ~props.ok THEN props
            ELSE LET rest == EnhancedEntries(Tail(entries), is_rel)
                 IN IF ~rest.ok THEN rest
                    ELSE Returned(<<head>> \o props.lines \o rest.lines)

\* lines 255-266: f"{label} {{{props_str}}}"
BasicEntries(entries) ==
    [i \in DOMAIN entries |->
        <<entries[i][1], " {">>
        \o JoinText(", ", [j \in DOMAIN entries[i][2] |->
                            <<entries[i][2][j].property, ": ",
                              entries[i][2][j].type>>])
        \o <<"}">>]

\* mutant of FormattedRels: start and end exchanged
FormattedRels_Backwards(relationships) ==
    [i \in DOMAIN relationships |->
        <<"(:", relationships[i].end, ")-[:", relationships[i].type,
          "]->(:", relationships[i].start, ")">>]

\* lines 269-272
FormattedRels(relationships) ==
    [i \in DOMAIN relationships |->
        <<"(:", relationships[i].start, ")-[:", relationships[i].type,
          "]->(:", relationships[i].end, ")">>]

\* "\n".join(part): no part gives the empty string, one empty line
JoinedPart(lines) == IF lines = <<>> THEN << <<>> >> ELSE lines

_format_schema(schema, is_enhanced) ==
    LET node == IF is_enhanced THEN EnhancedEntries(schema.node_props, FALSE)
                ELSE Returned(BasicEntries(schema.node_props))
        rel == IF is_enhanced THEN EnhancedEntries(schema.rel_props, TRUE)
               ELSE Returned(BasicEntries(schema.rel_props))
    IN IF ~node.ok THEN node
       ELSE IF ~rel.ok THEN rel
       ELSE Returned(
                << <<"Node properties:">> >> \o JoinedPart(node.lines)
                \o << <<"Relationship properties:">> >> \o JoinedPart(rel.lines)
                \o << <<"The relationships:">> >>
                \o JoinedPart(FormattedRels(schema.relationships)))

(***************************************************************************)
(* SpecFormat: _format_schema called on a structured schema whose          *)
(* descriptors are those the introspection and the sampler produce.        *)
(***************************************************************************)
WithStats(property, type, stats) ==
    [property |-> property, type |-> type, stats |-> stats]

\* texts with a newline and with a carriage return in them
TwoLines == <<"a", "\n", "b">>
Returning == <<"c", "\r">>

\* STRING: as introspected; scanned exhaustively with few and with more than
\* DISTINCT_VALUE_LIMIT values; sampled
StringDescriptors ==
    {Descriptor("name", "STRING"),
     WithStats("name", "STRING",
               "values" :> <<TwoLines, Returning>> @@ "distinct_count" :> 2),
     WithStats("name", "STRING",
               "values" :> <<Returning, TwoLines>>
               @@ "distinct_count" :> DISTINCT_VALUE_LIMIT + 1),
     WithStats("name", "STRING", "values" :> <<TwoLines>>)}

\* numeric and temporal: as introspected; with min and max; scanned with no
\* value found; sampled, and sampled with no value found
NumericDescriptors ==
    {Descriptor("age", "INTEGER"),
     WithStats("age", "INTEGER",
               "min" :> <<"1">> @@ "max" :> <<"9", "9">>
               @@ "distinct_count" :> 2),
     WithStats("since", "DATE",
               "min" :> NullText @@ "max" :> NullText @@ "distinct_count" :> 0),
     WithStats("age", "INTEGER", "values" :> << <<"4">>, <<"2">> >>),
     WithStats("age", "INTEGER", "values" :> <<TwoLines>>),
     WithStats("since", "DATE", "values" :> <<>>)}

Sizes(min_size, max_size) == "min_size" :> min_size @@ "max_size" :> max_size

\* LIST: as introspected; of sizes below, at and above LIST_LIMIT; with an
\* empty list among them; with no list found
ListDescriptors ==
    {Descriptor("tags", "LIST"),
     WithStats("tags", "LIST", Sizes(1, 3)),
     WithStats("tags", "LIST", Sizes(0, 4)),
     WithStats("embedding", "LIST", Sizes(LIST_LIMIT, LIST_LIMIT)),
     WithStats("embedding", "LIST", Sizes(LIST_LIMIT + 1, LIST_LIMIT + 1)),
     WithStats("tags", "LIST", Sizes(NullInt, NullInt))}

FmtDescriptors ==
    StringDescriptors \cup NumericDescriptors \cup ListDescriptors
    \cup {Descriptor("active", "BOOLEAN")}

\* the property lists of one label or type: no property named twice
FmtProperties ==
    {ps \in UNION {[1..n -> FmtDescriptors] : n \in 0..MaxProps} :
        \A i, j \in DOMAIN ps : i # j => ps[i].property # ps[j].property}

\* a row of rel_query (lines 32-40)
Triple(start, type, end) == [start |-> start, type |-> type, end |-> end]

FmtRelationships ==
    {<<>>,
     <<Triple("Person", "KNOWS", "Person")>>,
     <<Triple("Person", "ACTED_IN", "Movie"),
       Triple("Person", "KNOWS", "Person")>>}

\* the same properties on a label, on a relationship type, or on both
FmtSchemas ==
    {[node_props |-> IF on_node THEN << <<"Person", ps>> >> ELSE <<>>,
      rel_props |-> IF on_rel THEN << <<"KNOWS", ps>> >> ELSE <<>>,
      relationships |-> rels,
      metadata |-> [constraint |-> <<>>, index |-> <<>>]] :
        on_node \in BOOLEAN, on_rel \in BOOLEAN,
        ps \in FmtProperties, rels \in FmtRelationships}

FmtInit ==
    /\ fmtSchema \in FmtSchemas
    /\ fmtEnhanced \in BOOLEAN
    /\ fmtResult = [ok |-> FALSE, error |-> "", lines |-> <<>>]
    /\ fmtPc = 0
    /\ SanIdle
    /\ ImpIdle
    /\ RefIdle
    /\ LifeIdle

\* the call returns the formatted schema
FormatReturns ==
    /\ fmtPc = 0
    /\ _format_schema(fmtSchema, fmtEnhanced).ok
    /\ fmtResult' = _format_schema(fmtSchema, fmtEnhanced)
    /\ fmtPc' = 1
    /\ UNCHANGED <<fmtSchema, fmtEnhanced>>
    /\ UNCHANGED notFmtVars

\* the call raises
FormatFails ==
    /\ fmtPc = 0
    /\ ~_format_schema(fmtSchema, fmtEnhanced).ok
    /\ fmtResult' = _format_schema(fmtSchema, fmtEnhanced)
    /\ fmtPc' = 1
    /\ UNCHANGED <<fmtSchema, fmtEnhanced>>
    /\ UNCHANGED notFmtVars

FmtNext == FormatReturns \/ FormatFails

SpecFormat == FmtInit /\ [][FmtNext]_vars

(***************************************************************************)
(* Claims C11, C12, C14, C16 and C20, under SpecFormat.                    *)
(***************************************************************************)
\* the call has returned, in enhanced mode
EnhancedOutput == fmtPc = 1 /\ fmtResult.ok /\ fmtEnhanced

\* where a header line stands in the output
HeaderAt(lines, header) == CHOOSE i \in DOMAIN lines : lines[i] = <<header>>

\* the lines of the output under "Node properties:" and under
\* "Relationship properties:"
NodeSection(lines) ==
    SubSeq(lines, HeaderAt(lines, "Node properties:") + 1,
           HeaderAt(lines, "Relationship properties:") - 1)
RelSection(lines) ==
    SubSeq(lines, HeaderAt(lines, "Relationship properties:") + 1,
           HeaderAt(lines, "The relationships:") - 1)

\* the property lines a section has for a property name
PropertyLines(section, property) ==
    {i \in DOMAIN section :
        /\ Len(section[i]) >= 7
        /\ section[i][1] = "  - "
        /\ section[i][3] = property}

\* the lists of descriptors in the input with the section rendering each
Rendered ==
    {<<fmtSchema.node_props[i][2], NodeSection(fmtResult.lines)>> :
        i \in DOMAIN fmtSchema.node_props}
    \cup {<<fmtSchema.rel_props[i][2], RelSection(fmtResult.lines)>> :
            i \in DOMAIN fmtSchema.rel_props}

\* min_size is absent (or null), or greater than LIST_LIMIT
NoUsableSize(prop) ==
    \/ ~Has(prop, "min_size")
    \/ prop.stats["min_size"] = NullInt
    \/ prop.stats["min_size"] > LIST_LIMIT

\* C11: in enhanced mode the output has no property line for a LIST property
\* of a label or type whose min_size is absent or greater than LIST_LIMIT,
\* and one line for every property of it that is not a LIST.
C11_ListOmitted ==
    EnhancedOutput =>
        \A r \in Rendered :
            \A k \in DOMAIN r[1] :
                LET prop == r[1][k]
                    n == Cardinality(PropertyLines(r[2], prop.property))
                IN /\ (prop.type = "LIST" /\ NoUsableSize(prop)) => n = 0
                   /\ prop.type # "LIST" => n = 1

\* a label and a type with an embedding of LIST_LIMIT + 1 elements and
\* another property were formatted
C11_Witness ==
    /\ EnhancedOutput
    /\ fmtSchema.node_props # <<>> /\ fmtSchema.rel_props # <<>>
    /\ \E k \in DOMAIN fmtSchema.node_props[1][2] :
          LET prop == fmtSchema.node_props[1][2][k]
          IN /\ prop.type = "LIST"
             /\ Has(prop, "min_size")
             /\ prop.stats["min_size"] = LIST_LIMIT + 1
    /\ \E k \in DOMAIN fmtSchema.node_props[1][2] :
          fmtSchema.node_props[1][2][k].type = "STRING"

\* the lines of the output under "The relationships:"
RelationshipLines(lines) ==
    SubSeq(lines, HeaderAt(lines, "The relationships:") + 1, Len(lines))

\* C12: in basic and in enhanced mode the lines after the header
\* "The relationships:" are the lines (:start)-[:type]->(:end) of the
\* relationships of the schema, in their order.
C12_RelationshipLines ==
    (fmtPc = 1 /\ fmtResult.ok) =>
        LET out == RelationshipLines(fmtResult.lines)
            relationships == fmtSchema.relationships
        IN IF relationships = <<>> THEN out = << <<>> >>
           ELSE /\ Len(out) = Len(relationships)
                /\ \A i \in DOMAIN relationships :
                      out[i] = <<"(:", relationships[i].start, ")-[:",
                                 relationships[i].type, "]->(:",
                                 relationships[i].end, ")">>

\* a schema with two relationships and with properties was formatted in
\* enhanced mode
C12_Witness ==
    /\ EnhancedOutput
    /\ Len(fmtSchema.relationships) = 2
    /\ fmtSchema.relationships[1].end # fmtSchema.relationships[1].start
    /\ fmtSchema.node_props # <<>>
    /\ fmtSchema.rel_props # <<>>
    /\ fmtSchema.node_props[1][2] # <<>>

\* C14: every line of the enhanced output is one line of text: no newline
\* and no carriage return of an example value, of a STRING property or of a
\* numeric or temporal one, is left in it.
C14_OneLinePerProperty ==
    EnhancedOutput =>
        \A i \in DOMAIN fmtResult.lines :
            \A k \in DOMAIN fmtResult.lines[i] :
                fmtResult.lines[i][k] \notin {"\n", "\r"}

\* C16: in enhanced mode _format_schema returns for every schema, also one
\* whose descriptors have no statistics, and the property lines of a
\* relationship type are those of a label with the same descriptors.
C16_TotalAndAlike ==
    (fmtPc = 1 /\ fmtEnhanced) =>
        /\ fmtResult.ok
        /\ (fmtSchema.node_props # <<>> /\ fmtSchema.rel_props # <<>>) =>
              Tail(NodeSection(fmtResult.lines))
                  = Tail(RelSection(fmtResult.lines))

\* C20: in enhanced mode a LIST property is left out only when its min_size
\* is absent or greater than LIST_LIMIT; with any other min_size, 0
\* included, it has one property line, which gives "Min Size: " and
\* ", Max Size: ".
C20_ListRendered ==
    EnhancedOutput =>
        \A r \in Rendered :
            \A k \in DOMAIN r[1] :
                LET prop == r[1][k]
                    at == PropertyLines(r[2], prop.property)
                IN (prop.type = "LIST" /\ ~NoUsableSize(prop)) =>
                      /\ Cardinality(at) = 1
                      /\ \A i \in at :
                            /\ r[2][i][8] = "Min Size: "
                            /\ \E j \in DOMAIN r[2][i] :
                                  r[2][i][j] = ", Max Size: "

(***************************************************************************)
(* _enhanced_schema_cypher (lines 592-754).  The query text is kept as its *)
(* parts: [match, with_clauses, output_dict]; a WITH clause is             *)
(* [fn, prop], a RETURN fragment [kind, prop, values], output_dict a       *)
(* sequence of <<prop_name, fragment>>.                                    *)
(***************************************************************************)
SAMPLE_SIZE == 5      \* "WITH n LIMIT 5", line 659

WithClause(fn, prop_name) == [fn |-> fn, prop |-> prop_name]
ReturnClause(kind, prop_name, values) ==
    [kind |-> kind, prop |-> prop_name, values |-> values]

\* lines 665-671: the RANGE indexes on exactly this property
PropIndex(index, label_or_type, prop_name) ==
    SelectSeq(index, LAMBDA el : /\ el.label = label_or_type
                                 /\ el.properties = <<prop_name>>
                                 /\ el.type = "RANGE")

\* lines 673-677: the STRING property is read from its index
IndexShortcut(prop_index) ==
    /\ prop_index # <<>>
    /\ prop_index[1].size > 0
    /\ prop_index[1].distinctValues <= DISTINCT_VALUE_LIMIT

\* the answer to apoc.schema.properties.distinct(label, prop), lines 678-681
DistinctFromIndex(db, label_or_type, prop_name) ==
    LET els == SelectSeq(db.labels, LAMBDA e : e.name = label_or_type)
        qs == IF els = <<>> THEN <<>>
              ELSE SelectSeq(els[1].props, LAMBDA q : q.property = prop_name)
    IN IF qs = <<>> THEN <<>> ELSE qs[1].vals

\* what one pass of the loop appends: [with, ret, skip, ok]; distinct is the
\* executor's answer to apoc.schema.properties.distinct for the property
\* ([ok, value]), asked only on the index shortcut
ClausesFor(prop, exhaustive, prop_index, distinct) ==
    LET prop_name == prop.property
        none == [with |-> <<>>, ret |-> <<>>, skip |-> FALSE, ok |-> TRUE]
        minmax == [none EXCEPT
                     !.with = <<WithClause("min", prop_name),
                                WithClause("max", prop_name),
                                WithClause("count_distinct", prop_name)>>,
                     !.ret = <<ReturnClause("min_max_count", prop_name, <<>>)>>]
        sizes == [none EXCEPT
                     !.with = <<WithClause("size_min_max", prop_name)>>,
                     !.ret = <<ReturnClause("sizes", prop_name, <<>>)>>]
    IN IF prop.type = "STRING"
       THEN IF exhaustive
            THEN [none EXCEPT      \* lines 612-623
                    !.with = <<WithClause("collect_substring", prop_name)>>,
                    !.ret = <<ReturnClause("values_count", prop_name, <<>>)>>]
            ELSE IF IndexShortcut(prop_index)
            THEN IF distinct.ok      \* lines 678-687
                 THEN [none EXCEPT
                         !.ret = <<ReturnClause("literal", prop_name,
                                                distinct.value)>>]
                 ELSE [none EXCEPT !.ok = FALSE]
            ELSE [none EXCEPT      \* lines 689-695
                    !.with = <<WithClause("collect_substring", prop_name)>>,
                    !.ret = <<ReturnClause("values", prop_name, <<>>)>>]
       ELSE IF prop.type \in NumericTypes
       THEN IF exhaustive \/ prop_index # <<>>
            THEN minmax            \* lines 631-642, 710-725
            ELSE [none EXCEPT      \* lines 704-708
                    !.with = <<WithClause("collect_tostring", prop_name)>>,
                    !.ret = <<ReturnClause("values", prop_name, <<>>)>>]
       ELSE IF prop.type = "LIST" THEN sizes      \* lines 644-653, 728-739
       ELSE IF prop.type \in SkippedTypes
       THEN [none EXCEPT !.skip = TRUE]           \* lines 654-655, 740-741
       ELSE none

RECURSIVE CypherLoop(_, _, _, _, _, _)
\* the loop over the properties (lines 608-656, 660-743), from the
\* accumulators acc = [with_clauses, return_clauses, output_dict]; executor
\* is [db, ok]: the database self.query reaches, and whether its call on
\* the index shortcut succeeds
CypherLoop(properties, exhaustive, index, label_or_type, executor, acc) ==
    IF properties = <<>> THEN [acc EXCEPT !.ok = TRUE]
    ELSE LET prop == Head(properties)
             distinct == [ok |-> executor.ok,
                          value |-> DistinctFromIndex(executor.db, label_or_type,
                                                      prop.property)]
             c == ClausesFor(prop, exhaustive,
                             PropIndex(index, label_or_type, prop.property),
                             distinct)
             with == acc.with_clauses \o c.with
             ret == acc.return_clauses \o c.ret
         IN IF ~c.ok THEN [acc EXCEPT !.ok = FALSE, !.error = "index query"]
            ELSE IF c.skip
            THEN CypherLoop(Tail(properties), exhaustive, index, label_or_type,
                            executor, [acc EXCEPT !.with_clauses = with])
            \* line 656, 743: return_clauses.pop()
            ELSE IF ret = <<>>
            THEN [acc EXCEPT !.ok = FALSE, !.error = "IndexError"]
            ELSE CypherLoop(Tail(properties), exhaustive, index, label_or_type,
                            executor,
                            [acc EXCEPT
                               !.with_clauses = with,
                               !.return_clauses = SubSeq(ret, 1, Len(ret) - 1),
                               !.output_dict =
                                   Append(@, <<prop.property, ret[Len(ret)]>>)])

_enhanced_schema_cypher(index, label_or_type, properties, exhaustive, is_relationship, executor) ==
    LET r == CypherLoop(properties, exhaustive, index, label_or_type, executor,
                        [ok |-> TRUE, error |-> "", with_clauses |-> <<>>,
                         return_clauses |-> <<>>, output_dict |-> <<>>])
    IN [ok |-> r.ok, error |-> r.error,
        match |-> [label_or_type |-> label_or_type,
                   is_relationship |-> is_relationship,
                   sampled |-> ~exhaustive],
        with_clauses |-> r.with_clauses,
        output_dict |-> r.output_dict]

(***************************************************************************)
(* The database behind the query executor.  A database is                  *)
(* [labels, reltypes, topology, constraints, indexes]; a label or type is  *)
(* [name, count, props], a property [property, type, vals, sizes]: vals    *)
(* the distinct values stored under it (numbers in ascending order), sizes *)
(* <<min, max>> of the stored lists' sizes, or <<>> when there is none.    *)
(***************************************************************************)
BASE_ENTITY_LABEL == "__Entity__"
EXCLUDED_LABELS == <<"_Bloom_Perspective_", "_Bloom_Scene_">>
EXCLUDED_RELS == <<"_Bloom_HAS_SCENE_">>
Min(a, b) == IF a <= b THEN a ELSE b
Take(seq, n) == SubSeq(seq, 1, Min(n, Len(seq)))

RECURSIVE Dedup(_)
\* the distinct elements of a sequence, in order of first occurrence
Dedup(seq) ==
    IF seq = <<>> THEN <<>>
    ELSE LET rest == Dedup(SubSeq(seq, 1, Len(seq) - 1))
             last == seq[Len(seq)]
         IN IF last \in Range(rest) THEN rest ELSE Append(rest, last)

\* substring(toString(v), 0, 50)
Substring50(text) == Take(text, 50)

Descriptors(props) ==
    [i \in DOMAIN props |-> Descriptor(props[i].property, props[i].type)]

\* node_properties_query (lines 13-21) run with $EXCLUDED_LABELS = excluded
NodePropertiesQuery(db, excluded) ==
    LET rows == SelectSeq(db.labels, LAMBDA l : /\ l.name \notin Range(excluded)
                                                /\ l.props # <<>>)
    IN [i \in DOMAIN rows |->
          [labels |-> rows[i].name, properties |-> Descriptors(rows[i].props)]]

\* rel_properties_query (lines 23-30)
RelPropertiesQuery(db, excluded) ==
    LET rows == SelectSeq(db.reltypes, LAMBDA t : /\ t.name \notin Range(excluded)
                                                  /\ t.props # <<>>)
    IN [i \in DOMAIN rows |->
          [type |-> rows[i].name, properties |-> Descriptors(rows[i].props)]]

\* mutant of RelQuery: only the start label is compared with the exclusions
RelQuery_StartOnly(db, excluded) ==
    SelectSeq(db.topology, LAMBDA r : r.start \notin Range(excluded))

\* rel_query (lines 32-40)
RelQuery(db, excluded) ==
    SelectSeq(db.topology, LAMBDA r : /\ r.start \notin Range(excluded)
                                      /\ r.end \notin Range(excluded))

\* the answer to "CALL apoc.meta.graph(...)" (lines 530-536): schema_counts[0]
SchemaCounts(db) ==
    [nodes |-> [i \in DOMAIN db.labels |->
                  [name |-> db.labels[i].name, count |-> db.labels[i].count]],
     relationships |->
         [i \in DOMAIN db.reltypes |->
             [name |-> db.reltypes[i].name, count |-> db.reltypes[i].count]]]

\* the stored property a statistics query aggregates
DbProp(db, match, prop_name) ==
    LET of == IF match.is_relationship THEN db.reltypes ELSE db.labels
        el == CHOOSE e \in Range(of) : e.name = match.label_or_type
    IN CHOOSE q \in Range(el.props) : q.property = prop_name

\* mutant of FirstValues: the collected values are not cut
FirstValues_All(values) == values

\* `prop_values`[..DISTINCT_VALUE_LIMIT], line 620
FirstValues(values) == Take(values, DISTINCT_VALUE_LIMIT)

\* the value of one entry of the query's output map
FragmentValue(dbprop, clause, sampled) ==
    LET seen == IF sampled THEN Take(dbprop.vals, SAMPLE_SIZE) ELSE dbprop.vals
        strings == Dedup([i \in DOMAIN seen |-> Substring50(seen[i])])
    IN IF clause.kind = "values_count"
       THEN ("values" :> FirstValues(strings)
             @@ "distinct_count" :> Len(strings))
       ELSE IF clause.kind = "literal"
       THEN ("values" :> clause.values @@ "distinct_count" :> Len(clause.values))
       ELSE IF clause.kind = "values"
       THEN ("values" :> (IF dbprop.type = "STRING" THEN strings ELSE seen))
       ELSE IF clause.kind = "min_max_count"
       THEN ("min" :> (IF seen = <<>> THEN NullText ELSE seen[1])
             @@ "max" :> (IF seen = <<>> THEN NullText ELSE seen[Len(seen)])
             @@ "distinct_count" :> Len(seen))
       ELSE ("min_size" :> (IF dbprop.sizes = <<>> THEN NullInt
                            ELSE dbprop.sizes[1])
             @@ "max_size" :> (IF dbprop.sizes = <<>> THEN NullInt
                               ELSE dbprop.sizes[2]))

\* the record a statistics query returns: enhanced_info, a sequence of
\* <<prop_name, statistics>>
EnhancedInfo(db, cypher) ==
    [i \in DOMAIN cypher.output_dict |->
        <<cypher.output_dict[i][1],
          FragmentValue(DbProp(db, cypher.match, cypher.output_dict[i][1]),
                        cypher.output_dict[i][2], cypher.match.sampled)>>]

\* "WITH " followed by no aggregation does not parse (line 745)
WellFormed(cypher) == cypher.with_clauses # <<>>

\* lines 560-562, 581-583: prop.update(enhanced_info[prop["property"]])
MergeInfo(properties, enhanced_info) ==
    [i \in DOMAIN properties |->
        IF \E j \in DOMAIN enhanced_info :
              enhanced_info[j][1] = properties[i].property
        THEN LET j == CHOOSE k \in DOMAIN enhanced_info :
                          enhanced_info[k][1] = properties[i].property
             IN [properties[i] EXCEPT !.stats = enhanced_info[j][2] @@ @]
        ELSE properties[i]]

(***************************************************************************)
(* The databases refresh_schema is run against.                            *)
(***************************************************************************)
Val(i) == <<"v", Digits[(i \div 10) + 1], Digits[(i % 10) + 1]>>
Vals(n) == [i \in 1..n |-> Val(i)]
Ages == << <<"1">>, <<"9", "9">> >>
Dates == << <<"1999-01-01">>, <<"2020-12-31">> >>

Stored(property, type, vals) ==
    [property |-> property, type |-> type, vals |-> vals, sizes |-> <<>>]
StoredList(property, sizes) ==
    [property |-> property, type |-> "LIST", vals |-> <<>>, sizes |-> sizes]
Element(name, count, props) == [name |-> name, count |-> count, props |-> props]
RangeIndex(label, property, size, distinctValues) ==
    [label |-> label, properties |-> <<property>>, type |-> "RANGE",
     size |-> size, distinctValues |-> distinctValues]

Topology == <<Triple("Person", "KNOWS", "Person"),
              Triple("Person", "ACTED_IN", "Movie")>>

\* few nodes: every statistics query is exhaustive; n names are stored
DbSmall(n) ==
    [labels |-> <<Element("Person", 50,
                          <<Stored("name", "STRING", Vals(n)),
                            Stored("age", "INTEGER", Ages)>>),
                  Element("Movie", 20,
                          <<StoredList("tags", <<1, 3>>),
                            Stored("released", "DATE", Dates)>>)>>,
     reltypes |-> <<Element("KNOWS", 30, <<Stored("since", "DATE", Dates)>>),
                    Element("ACTED_IN", 40,
                            <<Stored("role", "STRING", Vals(n))>>),
                    Element("DIRECTED", 5, <<>>)>>,
     topology |-> Topology,
     constraints |-> <<[name |-> "person_name"]>>,
     indexes |-> <<>>]

\* EXHAUSTIVE_SEARCH_LIMIT Person nodes and KNOWS relationships: their
\* statistics are sampled; the indexes are given
DbBig(n, indexes) ==
    [labels |-> <<Element("Person", EXHAUSTIVE_SEARCH_LIMIT,
                          <<Stored("name", "STRING", Vals(n)),
                            Stored("age", "INTEGER", Ages)>>),
                  Element("Movie", 20,
                          <<Stored("released", "DATE", Dates)>>)>>,
     reltypes |-> <<Element("KNOWS", EXHAUSTIVE_SEARCH_LIMIT,
                            <<Stored("since", "DATE", Dates)>>)>>,
     topology |-> Topology,
     constraints |-> <<>>,
     indexes |-> indexes]

NameIndex(distinctValues) ==
    <<RangeIndex("Person", "name", EXHAUSTIVE_SEARCH_LIMIT, distinctValues)>>
AgeIndex == <<RangeIndex("Person", "age", EXHAUSTIVE_SEARCH_LIMIT, 99)>>

\* a property of a type the sampler does not know, a label with BOOLEAN
\* properties only, lists of no, few and many elements, reserved labels
DbOdd(on_relationship) ==
    [labels |-> <<Element("Person", 50,
                          <<Stored("name", "STRING",
                                   << <<"a", "\n", "b">>, <<"c", "\r">> >>)>>)>>
                \o (IF on_relationship THEN <<>>
                    ELSE <<Element("Shift", 10,
                                   <<Stored("start", "LOCAL_TIME", <<>>)>>)>>),
     reltypes |-> <<Element("KNOWS", 30, <<Stored("since", "DATE", Dates)>>)>>
                  \o (IF on_relationship
                      THEN <<Element("SHIFT", 10,
                                     <<Stored("start", "LOCAL_TIME", <<>>)>>)>>
                      ELSE <<>>),
     topology |-> <<Triple("Person", "KNOWS", "Person")>>,
     constraints |-> <<>>,
     indexes |-> <<>>]

DbFlags ==
    [labels |-> <<Element("Person", 50, <<Stored("name", "STRING", Vals(2))>>),
                  Element("Flag", 10, <<Stored("active", "BOOLEAN", <<>>)>>)>>,
     reltypes |-> <<>>,
     topology |-> <<>>,
     constraints |-> <<>>,
     indexes |-> <<>>]

DbLists ==
    [labels |-> <<Element("Chunk", 50,
                          <<StoredList("embedding", <<1536, 1536>>),
                            StoredList("tags", <<0, 4>>),
                            StoredList("refs", <<>>),
                            Stored("text", "STRING", Vals(1))>>),
                  Element("__Entity__", 50, <<Stored("id", "STRING", Vals(3))>>),
                  Element("_Bloom_Perspective_", 1,
                          <<Stored("name", "STRING", Vals(1))>>)>>,
     reltypes |-> <<Element("NEXT", 30, <<StoredList("weights", <<2, 2>>)>>),
                    Element("_Bloom_HAS_SCENE_", 1,
                            <<Stored("x", "STRING", Vals(1))>>)>>,
     topology |-> <<Triple("Chunk", "NEXT", "Chunk"),
                    Triple("Chunk", "PART_OF", "__Entity__"),
                    Triple("_Bloom_Perspective_", "_Bloom_HAS_SCENE_",
                           "_Bloom_Scene_")>>,
     constraints |-> <<>>,
     indexes |-> <<>>]

Databases ==
    {DbSmall(n) : n \in {1, DISTINCT_VALUE_LIMIT, DISTINCT_VALUE_LIMIT + 1}}
    \cup {DbBig(DISTINCT_VALUE_LIMIT, NameIndex(DISTINCT_VALUE_LIMIT)),
          DbBig(DISTINCT_VALUE_LIMIT + 1, NameIndex(DISTINCT_VALUE_LIMIT)),
          DbBig(DISTINCT_VALUE_LIMIT + 1, NameIndex(DISTINCT_VALUE_LIMIT + 1)),
          DbBig(DISTINCT_VALUE_LIMIT + 1, AgeIndex),
          DbBig(3, <<>>)}
    \cup {DbOdd(FALSE), DbOdd(TRUE), DbFlags, DbLists}

(***************************************************************************)
(* Spec: refresh_schema (lines 478-590), one action per query it sends and *)
(* per step between two of them.  The accessors get_schema and             *)
(* get_structured_schema (lines 402-410) return the two attributes as they *)
(* are at the moment of the call.                                          *)
(***************************************************************************)
get_schema == self_schema
get_structured_schema == structured_schema

Init ==
    /\ enhanced_schema \in BOOLEAN
    /\ structured_schema = EmptySchema
    /\ self_schema = <<>>
    /\ pc = "idle"
    /\ server \in Databases
    /\ frame = EmptyFrame
    /\ raised = ""
    /\ refreshes = 0
    /\ committed = <<EmptySchema, <<>> >>
    /\ denied = ""
    /\ skipped = {}
    /\ SanIdle
    /\ ImpIdle
    /\ FmtIdle
    /\ LifeIdle

\* an exception leaves refresh_schema: the attributes stay as they are
Raise(error) ==
    /\ pc' = "idle"
    /\ raised' = error
    /\ UNCHANGED <<enhanced_schema, structured_schema, self_schema, server, frame,
                   refreshes, committed, denied, skipped>>
    /\ UNCHANGED notRefVars

\* the next statement of refresh_schema, with new locals
Goto(next, locals) ==
    /\ pc' = next
    /\ frame' = locals
    /\ UNCHANGED <<enhanced_schema, structured_schema, self_schema, server, raised,
                   refreshes, committed, skipped>>
    /\ UNCHANGED notRefVars

\* a caller starts refresh_schema; the database may have changed meanwhile
BeginRefresh ==
    /\ pc = "idle"
    /\ refreshes < MaxRefreshes
    /\ refreshes' = refreshes + 1
    /\ server' \in Databases
    /\ pc' = "node_properties"
    /\ frame' = EmptyFrame
    /\ raised' = ""
    /\ denied' = ""
    /\ skipped' = {}
    /\ UNCHANGED <<enhanced_schema, structured_schema, self_schema, committed>>
    /\ UNCHANGED notRefVars

\* lines 488-494
QueryNodeProperties ==
    /\ pc = "node_properties"
    /\ \/ /\ Goto("rel_properties",
                  [frame EXCEPT !.node_properties =
                      NodePropertiesQuery(server, EXCLUDED_LABELS
                                                  \o <<BASE_ENTITY_LABEL>>)])
          /\ UNCHANGED denied
       \/ Raise("node_properties_query")

\* lines 495-500
QueryRelProperties ==
    /\ pc = "rel_properties"
    /\ \/ /\ Goto("relationships",
                  [frame EXCEPT !.rel_properties =
                      RelPropertiesQuery(server, EXCLUDED_RELS)])
          /\ UNCHANGED denied
       \/ Raise("rel_properties_query")

\* lines 501-507
QueryRelationships ==
    /\ pc = "relationships"
    /\ \/ /\ Goto("constraint",
                  [frame EXCEPT !.relationships =
                      RelQuery(server, EXCLUDED_LABELS \o <<BASE_ENTITY_LABEL>>)])
          /\ UNCHANGED denied
       \/ Raise("rel_query")

\* mutant of NoMetadata: the handler empties index only
NoMetadata_IndexOnly == [frame EXCEPT !.index = <<>>]

\* lines 518-521: the handler of ClientError
NoMetadata == [frame EXCEPT !.constraint = <<>>, !.index = <<>>]

\* line 511: SHOW CONSTRAINTS answers, is refused (ClientError), or fails
\* otherwise
QueryConstraints ==
    /\ pc = "constraint"
    /\ \/ /\ Goto("index", [frame EXCEPT !.constraint = server.constraints])
          /\ UNCHANGED denied
       \/ /\ Goto("structured_schema", NoMetadata)
          /\ denied' = "constraint"
       \/ Raise("SHOW CONSTRAINTS")

\* lines 512-516
QueryIndexes ==
    /\ pc = "index"
    /\ \/ /\ Goto("structured_schema", [frame EXCEPT !.index = server.indexes])
          /\ UNCHANGED denied
       \/ /\ Goto("structured_schema", NoMetadata)
          /\ denied' = "index"
       \/ Raise("apoc.schema.nodes")

\* lines 523-528
Structured(locals) ==
    [node_props |-> [j \in DOMAIN locals.node_properties |->
                       <<locals.node_properties[j].labels,
                         locals.node_properties[j].properties>>],
     rel_props |-> [j \in DOMAIN locals.rel_properties |->
                      <<locals.rel_properties[j].type,
                        locals.rel_properties[j].properties>>],
     relationships |-> locals.relationships,
     metadata |-> [constraint |-> locals.constraint, index |-> locals.index]]

AssignStructuredSchema ==
    /\ pc = "structured_schema"
    /\ structured_schema' = Structured(frame)
    /\ pc' = IF enhanced_schema THEN "schema_counts" ELSE "format"
    /\ UNCHANGED <<enhanced_schema, self_schema, server, frame, raised,
                   refreshes, committed, denied, skipped>>
    /\ UNCHANGED notRefVars

\* lines 530-536
QuerySchemaCounts ==
    /\ pc = "schema_counts"
    /\ \/ /\ Goto("nodes", [frame EXCEPT !.schema_counts = SchemaCounts(server),
                                         !.i = 1])
          /\ UNCHANGED denied
       \/ Raise("apoc.meta.graph")

\* dict.get(name): the descriptors stored under name, <<>> when there are
\* none (lines 542-544, 570-572 skip on None and on the empty list alike)
PropsOf(entries, name) ==
    IF \E j \in DOMAIN entries : entries[j][1] = name
    THEN entries[CHOOSE j \in DOMAIN entries : entries[j][1] = name][2]
    ELSE <<>>

\* the loops of lines 538 and 566: what they iterate over, the element they
\* are at, and what they read for it
Counted(is_relationship) ==
    IF is_relationship THEN frame.schema_counts.relationships
    ELSE frame.schema_counts.nodes
Looping(is_relationship) ==
    /\ pc = (IF is_relationship THEN "relationships_stats" ELSE "nodes")
    /\ frame.i <= Len(Counted(is_relationship))
Current(is_relationship) == Counted(is_relationship)[frame.i]
Excluded(is_relationship) ==
    Current(is_relationship).name
        \in Range(IF is_relationship THEN EXCLUDED_RELS ELSE EXCLUDED_LABELS)
CurrentProps(is_relationship) ==
    PropsOf(IF is_relationship THEN structured_schema.rel_props
            ELSE structured_schema.node_props,
            Current(is_relationship).name)
Sampling(is_relationship) ==
    /\ Looping(is_relationship)
    /\ ~Excluded(is_relationship)
    /\ CurrentProps(is_relationship) # <<>>

\* lines 545-547, 573-578; index_ok: whether the queries that generation
\* itself sends (lines 678-681) are answered
EnhancedCypher(is_relationship, index_ok) ==
    _enhanced_schema_cypher(structured_schema.metadata.index,
                            Current(is_relationship).name,
                            CurrentProps(is_relationship),
                            Current(is_relationship).count
                                < EXHAUSTIVE_SEARCH_LIMIT,
                            is_relationship,
                            [db |-> server, ok |-> index_ok])

Continue ==
    /\ frame' = [frame EXCEPT !.i = @ + 1]
    /\ UNCHANGED <<enhanced_schema, self_schema, pc, server, raised, refreshes,
                   committed, denied>>
    /\ UNCHANGED notRefVars

\* lines 540-544, 568-572: continue
StatsSkip(is_relationship) ==
    /\ Looping(is_relationship)
    /\ Excluded(is_relationship) \/ CurrentProps(is_relationship) = <<>>
    /\ Continue
    /\ UNCHANGED <<structured_schema, skipped>>

\* lines 545-547, 573-578 raise
StatsGenerationRaises(is_relationship) ==
    /\ Sampling(is_relationship)
    /\ \E index_ok \in BOOLEAN :
          LET cypher == EnhancedCypher(is_relationship, index_ok)
          IN ~cypher.ok /\ Raise(cypher.error)

\* lines 550-562, 580-583: the query answers and its record is merged into
\* the descriptors, which are those of self.structured_schema
StatsMerge(is_relationship) ==
    /\ Sampling(is_relationship)
    /\ LET cypher == EnhancedCypher(is_relationship, TRUE)
           name == Current(is_relationship).name
           merged == MergeInfo(CurrentProps(is_relationship),
                               EnhancedInfo(server, cypher))
           Update(entries) ==
               [j \in DOMAIN entries |->
                   IF entries[j][1] = name THEN <<name, merged>> ELSE entries[j]]
       IN /\ cypher.ok
          /\ WellFormed(cypher)
          /\ structured_schema' =
                IF is_relationship
                THEN [structured_schema EXCEPT !.rel_props = Update(@)]
                ELSE [structured_schema EXCEPT !.node_props = Update(@)]
    /\ Continue
    /\ UNCHANGED skipped

\* lines 563-564, 585-586: except CypherTypeError: continue
StatsTypeError(is_relationship) ==
    /\ Sampling(is_relationship)
    /\ LET cypher == EnhancedCypher(is_relationship, TRUE)
       IN cypher.ok /\ WellFormed(cypher)
    /\ skipped' = skipped \cup {Current(is_relationship).name}
    /\ Continue
    /\ UNCHANGED structured_schema

\* the query raises something else: a syntax error when it is not well
\* formed, any other Neo4jError when it is
StatsQueryRaises(is_relationship) ==
    /\ Sampling(is_relationship)
    /\ LET cypher == EnhancedCypher(is_relationship, TRUE)
       IN /\ cypher.ok
          /\ Raise(IF WellFormed(cypher) THEN "statistics query"
                   ELSE "CypherSyntaxError")

\* the loop is exhausted
StatsDone(is_relationship) ==
    /\ pc = (IF is_relationship THEN "relationships_stats" ELSE "nodes")
    /\ frame.i > Len(Counted(is_relationship))
    /\ pc' = IF is_relationship THEN "format" ELSE "relationships_stats"
    /\ frame' = [frame EXCEPT !.i = 1]
    /\ UNCHANGED <<enhanced_schema, structured_schema, self_schema, server,
                   raised, refreshes, committed, denied, skipped>>
    /\ UNCHANGED notRefVars

NodeStatsSkip == pc = "nodes" /\ StatsSkip(FALSE)
NodeStatsGenerationRaises == pc = "nodes" /\ StatsGenerationRaises(FALSE)
NodeStatsMerge == pc = "nodes" /\ StatsMerge(FALSE)
NodeStatsTypeError == pc = "nodes" /\ StatsTypeError(FALSE)
NodeStatsQueryRaises == pc = "nodes" /\ StatsQueryRaises(FALSE)
NodeStatsDone == pc = "nodes" /\ StatsDone(FALSE)
RelStatsSkip == pc = "relationships_stats" /\ StatsSkip(TRUE)
RelStatsGenerationRaises == pc = "relationships_stats" /\ StatsGenerationRaises(TRUE)
RelStatsMerge == pc = "relationships_stats" /\ StatsMerge(TRUE)
RelStatsTypeError == pc = "relationships_stats" /\ StatsTypeError(TRUE)
RelStatsQueryRaises == pc = "relationships_stats" /\ StatsQueryRaises(TRUE)
RelStatsDone == pc = "relationships_stats" /\ StatsDone(TRUE)

\* lines 588-590: the schema is formatted and stored, and the call returns
FormatAndStore ==
    /\ pc = "format"
    /\ LET formatted == _format_schema(structured_schema, enhanced_schema)
       IN /\ formatted.ok
          /\ self_schema' = formatted.lines
          /\ committed' = <<structured_schema, formatted.lines>>
    /\ pc' = "idle"
    /\ UNCHANGED <<enhanced_schema, structured_schema, server, frame, raised,
                   refreshes, denied, skipped>>
    /\ UNCHANGED notRefVars

\* line 588 raises
FormatRaises ==
    /\ pc = "format"
    /\ LET formatted == _format_schema(structured_schema, enhanced_schema)
       IN ~formatted.ok /\ Raise(formatted.error)

Next ==
    \/ BeginRefresh
    \/ QueryNodeProperties
    \/ QueryRelProperties
    \/ QueryRelationships
    \/ QueryConstraints
    \/ QueryIndexes
    \/ AssignStructuredSchema
    \/ QuerySchemaCounts
    \/ NodeStatsSkip
    \/ NodeStatsGenerationRaises
    \/ NodeStatsMerge
    \/ NodeStatsTypeError
    \/ NodeStatsQueryRaises
    \/ NodeStatsDone
    \/ RelStatsSkip
    \/ RelStatsGenerationRaises
    \/ RelStatsMerge
    \/ RelStatsTypeError
    \/ RelStatsQueryRaises
    \/ RelStatsDone
    \/ FormatAndStore
    \/ FormatRaises

Spec == Init /\ [][Next]_vars

(***************************************************************************)
(* Claims C1-C4 and C10, under Spec.                                       *)
(***************************************************************************)
\* what a reader of the two accessors observes
Observed == <<get_structured_schema, get_schema>>

\* C1: a refresh presents the new schema atomically: no step of a running
\* refresh_schema other than its completion changes what a reader of
\* get_structured_schema and get_schema observes, so that the reader sees the
\* pre-refresh pair until the post-refresh pair is there.
C1_AtomicRefresh ==
    [][(pc # "idle" /\ pc' # "idle") => Observed' = Observed]_vars

\* C2: after a refresh_schema call that raised, both accessors return what
\* they returned when the last refresh completed.
C2_FailedRefreshChangesNothing ==
    (pc = "idle" /\ raised # "") => Observed = committed

\* what a failing statistics query makes refresh_schema raise
StatsQueryErrors == {"statistics query", "CypherSyntaxError"}

\* C3: with enhancement enabled, a failing statistics query never makes
\* refresh_schema raise, and a refresh in which the statistics query of some
\* label or type failed completes with a formatted schema.
C3_StatsFailureIsLocal ==
    /\ raised \notin StatsQueryErrors
    /\ (pc = "idle" /\ skipped # {}) => (raised = "" /\ Observed = committed)

\* the names and the declared properties of node_props or rel_props, without
\* the statistics merged into them
Declared(entries) ==
    [j \in DOMAIN entries |->
        <<entries[j][1],
          [k \in DOMAIN entries[j][2] |->
              Descriptor(entries[j][2][k].property, entries[j][2][k].type)]>>]

\* the locals after three answered introspection queries on the database
Introspected ==
    [EmptyFrame EXCEPT
        !.node_properties =
            NodePropertiesQuery(server, EXCLUDED_LABELS \o <<BASE_ENTITY_LABEL>>),
        !.rel_properties = RelPropertiesQuery(server, EXCLUDED_RELS),
        !.relationships =
            RelQuery(server, EXCLUDED_LABELS \o <<BASE_ENTITY_LABEL>>)]

\* C4: when the fetch of the constraints or of the indexes is refused, the
\* refresh does not raise for it: both metadata lists are empty (also when
\* only the index fetch was refused), node_props, rel_props and
\* relationships are those of the introspection rows, and in basic mode the
\* refresh completes with the schema formatted from them.
C4_MetadataDenied ==
    denied # "" =>
        /\ frame.constraint = <<>> /\ frame.index = <<>>
        /\ raised \notin {"SHOW CONSTRAINTS", "apoc.schema.nodes"}
        /\ pc # "structured_schema" =>
              /\ structured_schema.metadata = [constraint |-> <<>>, index |-> <<>>]
              /\ Declared(structured_schema.node_props)
                    = Structured(Introspected).node_props
              /\ Declared(structured_schema.rel_props)
                    = Structured(Introspected).rel_props
              /\ structured_schema.relationships = Introspected.relationships
        /\ (pc = "idle" /\ ~enhanced_schema) =>
              /\ raised = ""
              /\ get_schema
                    = _format_schema(Structured(Introspected), FALSE).lines

\* the index fetch alone is refused, after constraints were fetched, and the
\* basic refresh has completed with a schema
C4_Witness ==
    /\ denied = "index"
    /\ server.constraints # <<>>
    /\ pc = "idle"
    /\ ~enhanced_schema
    /\ raised = ""
    /\ get_schema # <<>>
    /\ structured_schema.node_props # <<>>

\* the structured schema is that of the database of the running refresh,
\* with the statistics merged so far
Merging == pc \in {"nodes", "relationships_stats", "format"}

\* the descriptors of structured_schema for a stored property (none or one)
DescriptorsOf(is_relationship, name, property) ==
    SelectSeq(PropsOf(IF is_relationship THEN structured_schema.rel_props
                      ELSE structured_schema.node_props, name),
              LAMBDA d : d.property = property)

\* the labels and types of the database, each with is_relationship
Elements ==
    {<<FALSE, e>> : e \in Range(server.labels)}
    \cup {<<TRUE, e>> : e \in Range(server.reltypes)}

\* the STRING properties the sampler has run for: the element, the stored
\* property and the descriptor the statistics were merged into
SampledStrings ==
    UNION {UNION {{[is_relationship |-> x[1], element |-> x[2],
                    stored |-> q, descriptor |-> d] :
                      d \in {e \in Range(DescriptorsOf(x[1], x[2].name,
                                                       q.property)) :
                               Has(e, "values")}} :
                  q \in {r \in Range(x[2].props) : r.type = "STRING"}} :
           x \in Elements}

Exhaustive(s) == s.element.count < EXHAUSTIVE_SEARCH_LIMIT
ServedFromIndex(s) ==
    /\ ~Exhaustive(s)
    /\ IndexShortcut(PropIndex(structured_schema.metadata.index,
                               s.element.name, s.stored.property))

\* the distinct values the sampler observed: those of the index, of all
\* elements, or of SAMPLE_SIZE elements
ObservedValues(s) ==
    IF ServedFromIndex(s)
    THEN DistinctFromIndex(server, s.element.name, s.stored.property)
    ELSE LET seen == IF Exhaustive(s) THEN s.stored.vals
                     ELSE Take(s.stored.vals, SAMPLE_SIZE)
         IN Dedup([i \in DOMAIN seen |-> Substring50(seen[i])])

ReservedLabels == Range(EXCLUDED_LABELS) \cup {BASE_ENTITY_LABEL}

\* C13: no label of the exclusion set and not the supertype label is a key
\* of node_props or the start or end of a relationship of the structured
\* schema, whatever the database holds.
C13_ReservedLabelsExcluded ==
    /\ \A i \in DOMAIN structured_schema.node_props :
          structured_schema.node_props[i][1] \notin ReservedLabels
    /\ \A i \in DOMAIN structured_schema.relationships :
          /\ structured_schema.relationships[i].start \notin ReservedLabels
          /\ structured_schema.relationships[i].end \notin ReservedLabels

\* a refresh has completed on a database that holds the supertype label and
\* a label of the exclusion set, with properties and in relationships
C13_Witness ==
    /\ pc = "idle" /\ refreshes > 0 /\ raised = ""
    /\ structured_schema.node_props # <<>>
    /\ structured_schema.relationships # <<>>
    /\ \E e \in Range(server.labels) :
          e.name = BASE_ENTITY_LABEL /\ e.props # <<>>
    /\ \E e \in Range(server.labels) :
          e.name \in Range(EXCLUDED_LABELS) /\ e.props # <<>>
    /\ \E r \in Range(server.topology) : r.end = BASE_ENTITY_LABEL
    /\ \E r \in Range(server.topology) : r.start \in Range(EXCLUDED_LABELS)

\* C18: whatever the types of the properties of the label or relationship
\* type the statistics loop is at, and with the generator's own index
\* queries answered, _enhanced_schema_cypher returns a query, and no
\* refresh ends in the IndexError of an empty return_clauses.
C18_GenerationNeverFails ==
    /\ \A is_relationship \in BOOLEAN :
          Sampling(is_relationship) =>
              EnhancedCypher(is_relationship, TRUE).ok
    /\ raised # "IndexError"

\* C19: the statistics query generated for the label or relationship type
\* the loop is at, which is the query refresh_schema submits, has at least
\* one aggregation in its WITH clause, and no refresh ends in the syntax
\* error of a query without one.
C19_SubmittedQueriesWellFormed ==
    /\ \A is_relationship \in BOOLEAN :
          LET cypher == EnhancedCypher(is_relationship, TRUE)
          IN (Sampling(is_relationship) /\ cypher.ok) => WellFormed(cypher)
    /\ raised # "CypherSyntaxError"

(***************************************************************************)
(* The graph store the import queries run against.  A node is             *)
(* [labels, props], identified by its position in nodes; a relationship is *)
(* [src, type, dst, props].  props maps property keys to values.           *)
(***************************************************************************)
NoProps == [k \in {} |-> ""]
EmptyGraph == [nodes |-> <<>>, rels |-> <<>>]

HasProp(props, k) == k \in DOMAIN props

\* Cypher's  n += map : the map's entries are added, replacing equal keys
SetPlus(props, map) == map @@ props

\* the nodes a pattern (:label {id: id}) matches
MatchNodes(g, label, id) ==
    {i \in DOMAIN g.nodes :
        /\ label \in g.nodes[i].labels
        /\ HasProp(g.nodes[i].props, "id")
        /\ g.nodes[i].props["id"] = id}

\* the relationships a pattern (src)-[:type]->(dst) matches
MatchRels(g, src, type, dst) ==
    {i \in DOMAIN g.rels :
        g.rels[i].src = src /\ g.rels[i].type = type /\ g.rels[i].dst = dst}

AddNode(g, labels, props) ==
    [g EXCEPT !.nodes = Append(@, [labels |-> labels, props |-> props])]

AddRel(g, src, type, dst, props) ==
    [g EXCEPT !.rels =
        Append(@, [src |-> src, type |-> type, dst |-> dst, props |-> props])]

RECURSIVE SortedSeq(_)
SortedSeq(S) ==
    IF S = {} THEN <<>>
    ELSE LET m == CHOOSE x \in S : \A y \in S : x <= y
         IN <<m>> \o SortedSeq(S \ {m})

\* MERGE (n:label {id: id}) ON CREATE SET n += onCreate ON MATCH SET n += onMatch
\* for one input record: [g, bound], bound the nodes n is bound to
MergeNode(g, label, id, onCreate, onMatch) ==
    LET m == MatchNodes(g, label, id)
    IN IF m = {}
       THEN LET g1 == AddNode(g, {label}, SetPlus(("id" :> id), onCreate))
            IN [g |-> g1, bound |-> {Len(g1.nodes)}]
       ELSE [g |-> [g EXCEPT !.nodes =
                       [i \in DOMAIN @ |->
                           IF i \in m
                           THEN [@[i] EXCEPT !.props = SetPlus(@, onMatch)]
                           ELSE @[i]]],
             bound |-> m]

\* MERGE (src)-[r:type]->(dst) ON CREATE SET r += onCreate
MergeRel(g, src, type, dst, onCreate) ==
    IF MatchRels(g, src, type, dst) = {}
    THEN AddRel(g, src, type, dst, onCreate)
    ELSE g

(***************************************************************************)
(* The clauses of the import queries.  A query is run clause by clause on  *)
(* a table of records [d, row, source, target]; d, source and target are   *)
(* node positions (0: not bound).                                          *)
(***************************************************************************)
Unbound == [d |-> 0, source |-> 0, target |-> 0]

\* UNWIND $data AS row
Unwind(table, data) ==
    [k \in 1..(Len(table) * Len(data)) |->
        [d |-> table[((k - 1) \div Len(data)) + 1].d,
         row |-> data[((k - 1) % Len(data)) + 1],
         source |-> 0, target |-> 0]]

RECURSIVE MergeClause(_, _, _, _)
\* a MERGE of a node pattern, or a CALL apoc.merge.node, for every record:
\* keys[i] = [label, id, onCreate] is what record i merges on, field the
\* variable the merged node is bound to
MergeClause(g, table, keys, field) ==
    IF table = <<>> THEN [g |-> g, table |-> <<>>]
    ELSE LET k == Head(keys)
             m == MergeNode(g, k.label, k.id, k.onCreate, NoProps)
             b == SortedSeq(m.bound)
             out == [j \in DOMAIN b |-> [Head(table) EXCEPT ![field] = b[j]]]
             rest == MergeClause(m.g, Tail(table), Tail(keys), field)
         IN [g |-> rest.g, table |-> out \o rest.table]

RECURSIVE SetPropertiesClause(_, _)
\* SET source += row.properties
SetPropertiesClause(g, table) ==
    IF table = <<>> THEN g
    ELSE LET t == Head(table)
         IN SetPropertiesClause(
                [g EXCEPT !.nodes[t.source].props = SetPlus(@, t.row.properties)],
                Tail(table))

RECURSIVE MentionsClause(_, _)
\* MERGE (d)-[:MENTIONS]->(source)
MentionsClause(g, table) ==
    IF table = <<>> THEN g
    ELSE LET t == Head(table)
         IN MentionsClause(MergeRel(g, t.d, "MENTIONS", t.source, NoProps),
                           Tail(table))

RECURSIVE AddLabelsClause(_, _)
\* CALL apoc.create.addLabels(source, [row.type])
AddLabelsClause(g, table) ==
    IF table = <<>> THEN g
    ELSE LET t == Head(table)
         IN AddLabelsClause(
                [g EXCEPT !.nodes[t.source].labels = @ \cup {t.row.type}],
                Tail(table))

RECURSIVE MergeRelationshipClause(_, _)
\* CALL apoc.merge.relationship(source, row.type, {}, row.properties, target)
MergeRelationshipClause(g, table) ==
    IF table = <<>> THEN g
    ELSE LET t == Head(table)
         IN MergeRelationshipClause(
                MergeRel(g, t.source, t.row.type, t.target, t.row.properties),
                Tail(table))

\* include_docs_query (lines 42-47)
IncludeDocs(g, document) ==
    LET m == MergeNode(g, "Document", document.metadata["id"], NoProps, NoProps)
        b == SortedSeq(m.bound)
    IN [g |-> [m.g EXCEPT !.nodes =
                  [i \in DOMAIN @ |->
                      IF i \in m.bound
                      THEN [@[i] EXCEPT !.props =
                              SetPlus(SetPlus(@, ("text" :> document.page_content)),
                                      document.metadata)]
                      ELSE @[i]]],
        table |-> [j \in DOMAIN b |-> [Unbound EXCEPT !.d = b[j]]]]

\* the query of _get_node_import_query(True, include_source), lines 112-121
NodeImportCommonLabel(include_source, g, data, document) ==
    LET docs == IF include_source THEN IncludeDocs(g, document)
                ELSE [g |-> g, table |-> <<Unbound>>]
        rows == Unwind(docs.table, data)
        m == MergeClause(docs.g, rows,
                 [i \in DOMAIN rows |->
                     [label |-> BASE_ENTITY_LABEL, id |-> rows[i].row.id,
                      onCreate |-> NoProps]],
                 "source")
        g2 == SetPropertiesClause(m.g, m.table)
        g3 == IF include_source THEN MentionsClause(g2, m.table) ELSE g2
    IN AddLabelsClause(g3, m.table)

\* the query of _get_node_import_query(False, include_source), lines 123-130:
\* apoc.merge.node(labels, identProps, onCreateProps = row.properties,
\* onMatchProps = {})
NodeImportOwnLabel(include_source, g, data, document) ==
    LET docs == IF include_source THEN IncludeDocs(g, document)
                ELSE [g |-> g, table |-> <<Unbound>>]
        rows == Unwind(docs.table, data)
        m == MergeClause(docs.g, rows,
                 [i \in DOMAIN rows |->
                     [label |-> rows[i].row.type, id |-> rows[i].row.id,
                      onCreate |-> rows[i].row.properties]],
                 "source")
    IN IF include_source THEN MentionsClause(m.g, m.table) ELSE m.g

_get_node_import_query(baseEntityLabel, include_source, g, data, document) ==
    IF baseEntityLabel
    THEN NodeImportCommonLabel(include_source, g, data, document)
    ELSE NodeImportOwnLabel(include_source, g, data, document)

\* the queries of _get_rel_import_query, lines 133-154
_get_rel_import_query(baseEntityLabel, g, data) ==
    LET rows == Unwind(<<Unbound>>, data)
        s == MergeClause(g, rows,
                 [i \in DOMAIN rows |->
                     [label |-> IF baseEntityLabel THEN BASE_ENTITY_LABEL
                                ELSE rows[i].row.source_label,
                      id |-> rows[i].row.source, onCreate |-> NoProps]],
                 "source")
        t == MergeClause(s.g, s.table,
                 [i \in DOMAIN s.table |->
                     [label |-> IF baseEntityLabel THEN BASE_ENTITY_LABEL
                                ELSE s.table[i].row.target_label,
                      id |-> s.table[i].row.target, onCreate |-> NoProps]],
                 "target")
    IN MergeRelationshipClause(t.g, t.table)

(***************************************************************************)
(* SpecImport: an import query is run on the store, possibly after an      *)
(* earlier import of one node, and is then run again with the same rows.   *)
(***************************************************************************)
NodeRows ==
    {[id |-> "n1", type |-> "Person", properties |-> ("name" :> "Ann")],
     [id |-> "n1", type |-> "Person", properties |-> ("name" :> "Bob")],
     [id |-> "n1", type |-> "Movie", properties |-> ("name" :> "Ann")],
     [id |-> "n2", type |-> "Movie", properties |-> NoProps],
     [id |-> "n1", type |-> "Person", properties |-> ("id" :> "n2")]}

RelRows ==
    {[source |-> "n1", target |-> "n2", type |-> "KNOWS",
      properties |-> NoProps, source_label |-> "Person", target_label |-> "Movie"],
     [source |-> "n1", target |-> "n2", type |-> "KNOWS",
      properties |-> ("since" :> "2020"),
      source_label |-> "Person", target_label |-> "Movie"],
     [source |-> "n1", target |-> "n1", type |-> "LIKES",
      properties |-> NoProps, source_label |-> "Person", target_label |-> "Person"]}

Document ==
    [page_content |-> "text", metadata |-> ("id" :> "d1" @@ "source" :> "file")]

Batches(S) == UNION {[1..n -> S] : n \in 1..MaxRows}

NodeCall(baseEntityLabel, include_source, data) ==
    [kind |-> "nodes", baseEntityLabel |-> baseEntityLabel,
     include_source |-> include_source, data |-> data]

RelCall(baseEntityLabel, data) ==
    [kind |-> "rels", baseEntityLabel |-> baseEntityLabel,
     include_source |-> FALSE, data |-> data]

NoCall == [kind |-> "none", baseEntityLabel |-> FALSE,
           include_source |-> FALSE, data |-> <<>>]

ImpInit ==
    /\ graph = EmptyGraph
    /\ graphBefore = EmptyGraph
    /\ impCall = NoCall
    /\ impPhase = "empty"
    /\ SanIdle
    /\ RefIdle
    /\ FmtIdle
    /\ LifeIdle

\* one run of an import query: the first import of one row into the empty
\* store, the import under test, or its repetition
RunImport(call, result) ==
    /\ \/ impPhase = "empty" /\ Len(call.data) = 1 /\ call.kind = "nodes"
          /\ impPhase' = "seeded"
       \/ impPhase \in {"empty", "seeded"} /\ impPhase' = "once"
       \/ impPhase = "once" /\ call = impCall /\ impPhase' = "twice"
    /\ graphBefore' = graph
    /\ graph' = result
    /\ impCall' = call
    /\ UNCHANGED notImpVars

ImportNodes ==
    \E baseEntityLabel \in BOOLEAN, include_source \in BOOLEAN,
       data \in Batches(NodeRows) :
        RunImport(NodeCall(baseEntityLabel, include_source, data),
                  _get_node_import_query(baseEntityLabel, include_source,
                                         graph, data, Document))

ImportRels ==
    \E baseEntityLabel \in BOOLEAN, data \in Batches(RelRows) :
        RunImport(RelCall(baseEntityLabel, data),
                  _get_rel_import_query(baseEntityLabel, graph, data))

ImpNext == ImportNodes \/ ImportRels

SpecImport == ImpInit /\ [][ImpNext]_vars

\* C8 as claimed: running an import query again with the same rows leaves
\* the store as the first run left it
C8_ImportIdempotent == impPhase = "twice" => graph = graphBefore

\* the label a node import merges a row on (lines 115, 126)
MergeLabel(call, row) ==
    IF call.baseEntityLabel THEN BASE_ENTITY_LABEL ELSE row.type

\* the rows of the last import whose id no other row of its $data carries
SoleRows(call) ==
    {call.data[i] : i \in {j \in DOMAIN call.data :
        \A k \in DOMAIN call.data : k # j => call.data[k].id # call.data[j].id}}

\* the last node import overwrote, on every node that matched a row's id
\* before it ran, the properties the row carries
OverwriteOnConflict ==
    \A row \in SoleRows(impCall) :
        \A i \in MatchNodes(graphBefore, MergeLabel(impCall, row), row.id) :
            \A k \in DOMAIN row.properties :
                /\ HasProp(graph.nodes[i].props, k)
                /\ graph.nodes[i].props[k] = row.properties[k]

\* C9 as claimed: in both modes a row whose id matches an existing node has
\* its properties merged into that node, replacing the values of equal keys
C9_OverwriteBothModes ==
    (impPhase # "empty" /\ impCall.kind = "nodes") => OverwriteOnConflict

(***************************************************************************)
(* SpecLifecycle: query (lines 412-476), refresh_schema (line 485), close  *)
(* (lines 756-765), __exit__ (line 807) and __del__ (lines 831-835) called *)
(* in any order on two instances.  The default value of session_params     *)
(* (line 416) is one dict, made when the class is defined.                 *)
(***************************************************************************)
\* session_params as refresh_schema passes them (lines 556-558)
Notifications == "notifications_disabled_categories" :> "UNRECOGNIZED"

\* how the caller passes session_params: not at all, as {}, or with a key
Passings == {"default", "empty", "given"}

Callable(i) == ~drivers[i].deleted /\ calls < MaxCalls

\* the record of a call
Logged(i, op, outcome, path, database, passing) ==
    [instance |-> i, op |-> op, outcome |-> outcome, path |-> path,
     database |-> database, explicit |-> passing # "default",
     wasOpen |-> drivers[i].open, contacted |-> path # <<>>]

\* the driver is contacted n times through instance i
Contacted(i, n) == [drivers EXCEPT ![i].contacts = @ + n]

\* _check_driver_state raises (lines 397-400): nothing is touched
RaisesRuntimeError(i, op, passing) ==
    /\ ~drivers[i].open
    /\ lastOp' = Logged(i, op, "RuntimeError", <<>>, "", passing)
    /\ UNCHANGED <<drivers, default_session_params, versions, atClose>>

\* session_params as the body of query sees it
SessionParams(passing) ==
    IF passing = "default" THEN default_session_params
    ELSE IF passing = "empty" THEN EmptyDict
    ELSE Notifications

\* line 470: session_params.setdefault("database", self._database)
SetDefaultDatabase(session_params, i) ==
    IF "database" \in DOMAIN session_params THEN session_params
    ELSE ("database" :> DatabaseOf(i)) @@ session_params

\* lines 469-476: the session path, after the paths in before; the session
\* answers or raises
SessionPath(i, passing, before) ==
    LET session_params == SetDefaultDatabase(SessionParams(passing), i)
    IN /\ default_session_params' =
              IF passing = "default" THEN session_params
              ELSE default_session_params
       /\ drivers' = Contacted(i, Len(before) + 1)
       /\ \E outcome \in {"returned", "Neo4jError"} :
             lastOp' = Logged(i, "query", outcome, before \o <<"session">>,
                              session_params["database"], passing)
       /\ UNCHANGED <<versions, atClose>>

\* lines 437-448: execute_query answers, or raises an error that is neither
\* a call-in-transaction nor a periodic-commit error (line 468)
ExecuteQueryPath(i, passing) ==
    /\ drivers' = Contacted(i, 1)
    /\ \E outcome \in {"returned", "Neo4jError"} :
          lastOp' = Logged(i, "query", outcome, <<"execute_query">>,
                           DatabaseOf(i), passing)
    /\ UNCHANGED <<default_session_params, versions, atClose>>

query(i, passing) ==
    /\ Callable(i)
    /\ calls' = calls + 1
    /\ \/ RaisesRuntimeError(i, "query", passing)
       \/ /\ drivers[i].open
          /\ DOMAIN SessionParams(passing) = {}
          /\ ExecuteQueryPath(i, passing)
       \/ /\ drivers[i].open
          /\ DOMAIN SessionParams(passing) = {}
          /\ SessionPath(i, passing, <<"execute_query">>)
       \/ /\ drivers[i].open
          /\ DOMAIN SessionParams(passing) # {}
          /\ SessionPath(i, passing, <<>>)
    /\ UNCHANGED notLifeVars

\* refresh_schema on an instance: it raises at line 485, or runs as Spec
\* describes: to its end, or to an exception before or after line 523
refresh_schema(i) ==
    /\ Callable(i)
    /\ calls' = calls + 1
    /\ \/ RaisesRuntimeError(i, "refresh_schema", "default")
       \/ /\ drivers[i].open
          /\ drivers' = Contacted(i, 1)
          /\ \E outcome \in {"returned", "raised early", "raised late"} :
                /\ versions' =
                      [versions EXCEPT ![i] =
                          IF outcome = "returned" THEN <<@[1] + 1, @[2] + 1>>
                          ELSE IF outcome = "raised late" THEN <<@[1] + 1, @[2]>>
                          ELSE @]
                /\ lastOp' = Logged(i, "refresh_schema", outcome,
                                    <<"execute_query">>, DatabaseOf(i),
                                    "default")
          /\ UNCHANGED <<default_session_params, atClose>>
    /\ UNCHANGED notLifeVars

\* mutant of CloseDriver: the _driver attribute is not removed
CloseDriver_KeepAttribute(d) ==
    IF d.open THEN [d EXCEPT !.closes = @ + 1] ELSE d

\* lines 762-765: the driver is closed once and the attribute removed
CloseDriver(d) ==
    IF d.open THEN [d EXCEPT !.closes = @ + 1, !.open = FALSE] ELSE d

\* close, and what calls it: op is "close", "__exit__" or "__del__"
Closing(i, op) ==
    /\ drivers' = [drivers EXCEPT
                     ![i] = [CloseDriver(@) EXCEPT
                               !.closings = @ + 1,
                               !.deleted = (op = "__del__")]]
    /\ atClose' = IF drivers[i].open
                  THEN [atClose EXCEPT
                          ![i] = versions[i] \o <<drivers[i].contacts>>]
                  ELSE atClose
    /\ lastOp' = Logged(i, op, "returned", <<>>, "", "default")
    /\ UNCHANGED <<default_session_params, versions>>

close(i) ==
    /\ Callable(i)
    /\ calls' = calls + 1
    /\ Closing(i, "close")
    /\ UNCHANGED notLifeVars

\* line 807
Exit(i) ==
    /\ Callable(i)
    /\ calls' = calls + 1
    /\ Closing(i, "__exit__")
    /\ UNCHANGED notLifeVars

\* lines 831-835: the instance is collected, after which nothing calls it
Del(i) ==
    /\ Callable(i)
    /\ calls' = calls + 1
    /\ Closing(i, "__del__")
    /\ UNCHANGED notLifeVars

LifeInit ==
    /\ LifeIdle
    /\ SanIdle
    /\ ImpIdle
    /\ RefIdle
    /\ FmtIdle

Querying == \E i \in Instances, passing \in Passings : query(i, passing)
Refreshing == \E i \in Instances : refresh_schema(i)
Closes == \E i \in Instances : close(i)
Exits == \E i \in Instances : Exit(i)
Deletes == \E i \in Instances : Del(i)

LifeNext == Querying \/ Refreshing \/ Closes \/ Exits \/ Deletes

SpecLifecycle == LifeInit /\ [][LifeNext]_vars

(***************************************************************************)
(* Claims C15 and C17, under SpecLifecycle.  versions[i] counts the        *)
(* assignments of structured_schema and of schema on instance i, which is  *)
(* what get_structured_schema and get_schema return; atClose[i] is         *)
(* versions[i] and the number of contacts of the driver when the driver    *)
(* attribute was removed.                                                  *)
(***************************************************************************)
Closed(i) == ~drivers[i].open

\* C15: once an instance is closed, its driver's close has been called
\* exactly once however many times close, __exit__ and __del__ ran, the
\* driver is not contacted again, the accessors return what they returned
\* when it was closed, and a query or refresh_schema on it raises
\* RuntimeError without contacting the driver.
C15_ClosingIsAbsorbing ==
    /\ \A i \in Instances :
          /\ drivers[i].closes <= 1
          /\ drivers[i].closings >= 1 => Closed(i)
          /\ Closed(i) =>
                /\ drivers[i].closes = 1
                /\ versions[i] = <<atClose[i][1], atClose[i][2]>>
                /\ drivers[i].contacts = atClose[i][3]
    /\ (lastOp.op \in {"query", "refresh_schema"} /\ ~lastOp.wasOpen) =>
          /\ lastOp.outcome = "RuntimeError"
          /\ lastOp.path = <<>>

\* an instance refreshed, then closed twice or more, then queried
C15_Witness ==
    \E i \in Instances :
       /\ Closed(i)
       /\ versions[i] = <<1, 1>>
       /\ drivers[i].closings >= 2
       /\ drivers[i].closes = 1
       /\ lastOp.instance = i
       /\ lastOp.op = "query"
       /\ lastOp.outcome = "RuntimeError"

\* C17: a query call made without session_params on an open instance first
\* attempts execute_query, against the database of its own instance,
\* whatever calls were made before it.
C17_PathDependsOnCallOnly ==
    (lastOp.op = "query" /\ ~lastOp.explicit /\ lastOp.wasOpen) =>
        /\ lastOp.path # <<>>
        /\ lastOp.path[1] = "execute_query"
        /\ lastOp.database = DatabaseOf(lastOp.instance)

====
